---- MODULE Spec2Model ----
(***************************************************************************)
(* std::threadsafe::map<K,V> (include/map-threadsafe.hpp): a std::map      *)
(* guarded by one std::shared_mutex.  Each public method is a sequence of  *)
(* steps of the calling thread: taking the lock the method declares, the   *)
(* accesses to internal_map it makes, and the release of the lock when the *)
(* method's scope is left.  A method that holds the lock in unique mode    *)
(* runs its body as one step (nothing can interleave with it but the       *)
(* lock-free sizeNoThreadSafe); a method that holds it in shared mode      *)
(* takes one step per access to internal_map, since other shared holders   *)
(* run at the same time.                                                   *)
(***************************************************************************)
EXTENDS Integers, Sequences, FiniteSets, TLC

\* ---- bounds of the model
NumThreads == 2
MaxKey == 2
MaxVal == 3
MaxCap == 2

Threads == 1..NumThreads
Keys == 1..MaxKey
Values == 1..MaxVal
Caps == 0..MaxCap

Absent == 0      \* no entry for a key / an output parameter not written
End == 0         \* internal_map.end()

VARIABLES
    internal_map,   \* std::map<K,V> internal_map: Keys -> Values \cup {Absent}
    shared,         \* threads holding `mutex` in shared mode
    unique,         \* threads holding `mutex` in unique mode
    frame,          \* per thread: the call it is in, its position and locals
    seq,            \* the map obtained by running the write calls one at a
                    \* time in the order in which they took the lock
    run             \* per key: the calls of one method made on the key since
                    \* it was last changed by anything else

vars == <<internal_map, shared, unique, frame, seq, run>>

\* ---- std::map<K,V> as a function Keys -> Values \cup {Absent}
KeysOf(m) == {k \in Keys : m[k] # Absent}
Has(m, k) == m[k] # Absent
Size(m) == Cardinality(KeysOf(m))
EmptyMap == [k \in Keys |-> Absent]
Put(m, k, v) == [m EXCEPT ![k] = v]
Del(m, k) == [m EXCEPT ![k] = Absent]
MinKey(m) == CHOOSE k \in KeysOf(m) : \A j \in KeysOf(m) : k <= j
MaxKeyOf(m) == CHOOSE k \in KeysOf(m) : \A j \in KeysOf(m) : j <= k
\* internal_map.begin(): the least key, or end() when the map is empty
Begin(m) == IF KeysOf(m) = {} THEN End ELSE MinKey(m)
\* internal_map.find(key)
Find(m, k) == IF Has(m, k) THEN k ELSE End
\* it++ on a valid iterator: the next key in order, or end()
Succ(m, it) ==
    LET above == {k \in KeysOf(m) : k > it}
    IN IF above = {} THEN End ELSE CHOOSE k \in above : \A j \in above : k <= j
\* an iterator that can be dereferenced, advanced or erased
Valid(m, it) == it # End /\ Has(m, it)
\* the entries of m in ascending key order, as <<key, value>> pairs
RECURSIVE Entries(_, _)
Entries(m, from) ==
    IF from = End \/ from > MaxKey THEN << >>
    ELSE IF Has(m, from) THEN << <<from, m[from]>> >> \o Entries(m, from + 1)
    ELSE Entries(m, from + 1)
Prefix(s, n) == SubSeq(s, 1, IF n < Len(s) THEN n ELSE Len(s))

\* ---- the methods and the lock each one declares
SharedOps == {"get", "getTail", "getHead", "getAndEraseHead", "eraseHead",
              "size", "empty", "contains", "getValues"}
UniqueOps == {"insert", "erase", "clear", "putIfAbsent", "remove", "replace",
              "insertOrReplace", "insertOrReplaceOld", "replaceOldNew"}
Ops == SharedOps \cup UniqueOps \cup {"sizeNoThreadSafe"}

\* mutant: size() takes no lock
LockMode_sizeUnlocked(op) ==
    IF op \in SharedOps \ {"size"} THEN "shared"
    ELSE IF op \in UniqueOps THEN "unique"
    ELSE "none"

LockMode(op) ==
    IF op \in SharedOps THEN "shared"
    ELSE IF op \in UniqueOps THEN "unique"
    ELSE "none"

\* the parameters a method takes
UsesKey(op) == op \in {"get", "insert", "erase", "contains", "putIfAbsent", "remove",
                       "replace", "insertOrReplace", "insertOrReplaceOld", "replaceOldNew"}
UsesVal(op) == op \in {"insert", "putIfAbsent", "remove", "replace",
                       "insertOrReplace", "insertOrReplaceOld", "replaceOldNew"}
UsesOld(op) == op = "replaceOldNew"
UsesCap(op) == op = "getValues"

\* the methods whose body changes internal_map
WriteOps == UniqueOps \cup {"getAndEraseHead", "eraseHead"}
\* the methods whose body only reads internal_map
ReadOps == {"get", "getTail", "getHead", "size", "empty", "contains", "getValues"}

FirstPc(op) ==
    CASE op = "get" -> "find"
      [] op \in {"getTail", "getHead", "getAndEraseHead", "eraseHead"} -> "empty"
      [] op = "getValues" -> "begin"
      [] OTHER -> "body"

Idle == [pc |-> "idle", op |-> "none", key |-> 0, val |-> 0, old |-> 0, cap |-> 0,
         it |-> End, out |-> Absent, dest |-> << >>, ret |-> 0, exp |-> << >>]

Holds(t) == t \in shared \/ t \in unique

\* ---- the body of each write method run without interleaving:
\* the map it leaves, the value it returns, the output parameter it writes
Res(m, r, o) == [map |-> m, ret |-> r, out |-> o]

\* mutant: insert overwrites the value of a key that is present
insertBody_overwrites(m, k, v) ==
    IF Has(m, k) THEN Res(Put(m, k, v), FALSE, Absent) ELSE Res(Put(m, k, v), TRUE, Absent)

insertBody(m, k, v) ==
    IF Has(m, k) THEN Res(m, FALSE, Absent) ELSE Res(Put(m, k, v), TRUE, Absent)

eraseBody(m, k) ==
    IF Has(m, k) THEN Res(Del(m, k), 1, Absent) ELSE Res(m, 0, Absent)

clearBody(m) == Res(EmptyMap, 0, Absent)

\* mutant: putIfAbsent returns its argument also when the key is present
putIfAbsentBody_returnsArg(m, k, v) ==
    IF Find(m, k) = End THEN Res(Put(m, k, v), v, Absent) ELSE Res(m, v, Absent)

putIfAbsentBody(m, k, v) ==
    IF Find(m, k) = End THEN Res(Put(m, k, v), v, Absent) ELSE Res(m, m[k], Absent)

\* mutant: remove does not compare the value
removeBody_noCompare(m, k, v) ==
    IF Find(m, k) = End THEN Res(m, FALSE, Absent) ELSE Res(Del(m, k), TRUE, Absent)

removeBody(m, k, v) ==
    IF Find(m, k) = End \/ m[k] # v THEN Res(m, FALSE, Absent)
    ELSE Res(Del(m, k), TRUE, Absent)

\* mutant: replace(key, value) inserts the key when it is absent
replaceBody_upserts(m, k, v) ==
    IF Find(m, k) # End THEN Res(Put(m, k, v), TRUE, Absent)
    ELSE Res(Put(m, k, v), FALSE, Absent)

replaceBody(m, k, v) ==
    IF Find(m, k) # End THEN Res(Put(m, k, v), TRUE, Absent) ELSE Res(m, FALSE, Absent)

insertOrReplaceBody(m, k, v) ==
    IF Find(m, k) # End THEN Res(Put(m, k, v), FALSE, Absent)
    ELSE Res(Put(m, k, v), TRUE, Absent)

\* mutant: the previous value is not written to oldValue
insertOrReplaceOldBody_noOld(m, k, v) ==
    IF Find(m, k) # End THEN Res(Put(m, k, v), FALSE, Absent)
    ELSE Res(Put(m, k, v), TRUE, Absent)

insertOrReplaceOldBody(m, k, v) ==
    IF Find(m, k) # End THEN Res(Put(m, k, v), FALSE, m[k])
    ELSE Res(Put(m, k, v), TRUE, Absent)

\* mutant: replace(key, oldValue, newValue) does not compare with oldValue
replaceOldNewBody_noCompare(m, k, old, new) ==
    IF Find(m, k) # End THEN Res(Put(m, k, new), TRUE, Absent)
    ELSE Res(m, FALSE, Absent)

replaceOldNewBody(m, k, old, new) ==
    IF Find(m, k) # End /\ m[k] = old THEN Res(Put(m, k, new), TRUE, Absent)
    ELSE Res(m, FALSE, Absent)

getAndEraseHeadBody(m) ==
    IF KeysOf(m) # {} THEN Res(Del(m, Begin(m)), TRUE, m[Begin(m)])
    ELSE Res(m, FALSE, Absent)

eraseHeadBody(m) ==
    IF KeysOf(m) # {} THEN Res(Del(m, Begin(m)), TRUE, Absent)
    ELSE Res(m, FALSE, Absent)

\* the body of the write call f on map m
BodyOf(f, m) ==
    CASE f.op = "insert" -> insertBody(m, f.key, f.val)
      [] f.op = "erase" -> eraseBody(m, f.key)
      [] f.op = "clear" -> clearBody(m)
      [] f.op = "putIfAbsent" -> putIfAbsentBody(m, f.key, f.val)
      [] f.op = "remove" -> removeBody(m, f.key, f.val)
      [] f.op = "replace" -> replaceBody(m, f.key, f.val)
      [] f.op = "insertOrReplace" -> insertOrReplaceBody(m, f.key, f.val)
      [] f.op = "insertOrReplaceOld" -> insertOrReplaceOldBody(m, f.key, f.val)
      [] f.op = "replaceOldNew" -> replaceOldNewBody(m, f.key, f.old, f.val)
      [] f.op = "getAndEraseHead" -> getAndEraseHeadBody(m)
      [] f.op = "eraseHead" -> eraseHeadBody(m)

\* ---- accesses through an iterator.  An iterator to an erased node, or
\* end(), is not dereferenceable: using it is undefined behaviour, modelled
\* as every outcome the access can produce
DerefValues(m, it) == IF Valid(m, it) THEN {m[it]} ELSE Values
EraseAt(m, it) ==
    IF Valid(m, it) THEN {Del(m, it)} ELSE {m} \cup {Del(m, k) : k \in KeysOf(m)}
Advance(m, it) == IF Valid(m, it) THEN {Succ(m, it)} ELSE KeysOf(m) \cup {End}
\* erase(iter) deletes the node: through an iterator to an erased node it
\* deletes it a second time, through end() it deletes the header.  Beside
\* the outcomes of EraseAt, the call may then never return (the allocator
\* aborts, or the rebalancing walks a corrupted tree): the thread stays at
\* "fault", still holding the lock
EraseFaults(m, it) == ~Valid(m, it)

\* ---- the run of a key (history, for the statements about concurrent
\* calls on one key): a run of putIfAbsent(k, .) calls starts with a call
\* made when k is absent; a run of replace(k, e, x) calls with x # e starts
\* with a call made when k maps to e.  The run goes on while only calls of
\* its family take effect on k, and ends with the first other step that
\* changes k.  A call of the run wins when it takes effect: a putIfAbsent
\* that changes the map, a replace that returns true.  n counts the winners
\* (up to 2), win is the value the last winner passed, rets the values the
\* putIfAbsent calls of the run returned.
\* Likewise a run of insert(k, .) calls starts with a call made when k is
\* absent (a call wins when it returns true), and a remove(k, v) call made
\* when k maps to v starts a run that lasts until k is changed again.
NoRun == [op |-> "none", base |-> Absent, n |-> 0, win |-> Absent, rets |-> {}]
Cap2(n) == IF n > 2 THEN 2 ELSE n

InFamily(f, rn) ==
    \/ f.op = "putIfAbsent" /\ rn.op = "putIfAbsent"
    \/ f.op = "replaceOldNew" /\ rn.op = "replaceOldNew" /\ f.old = rn.base /\ f.val # f.old
    \/ f.op = "insert" /\ rn.op = "insert"

StartsRun(f, m) ==
    \/ f.op = "putIfAbsent" /\ ~Has(m, f.key)
    \/ f.op = "replaceOldNew" /\ f.val # f.old /\ m[f.key] = f.old
    \/ f.op = "insert" /\ ~Has(m, f.key)
    \/ f.op = "remove" /\ m[f.key] = f.val

\* the runs after the call f, returning r, took map m to m2
RunAfter(f, r, m, m2) ==
    [k \in Keys |->
        LET won == IF f.op = "putIfAbsent" THEN m2[k] # m[k] ELSE r = TRUE
            rn == IF f.key = k /\ InFamily(f, run[k]) THEN run[k]
                  ELSE [NoRun EXCEPT !.op = f.op, !.base = m[k]]
        IN IF f.key = k /\ (InFamily(f, run[k]) \/ StartsRun(f, m))
           THEN [rn EXCEPT !.n = IF won THEN Cap2(@ + 1) ELSE @,
                           !.win = IF won THEN f.val ELSE @,
                           !.rets = IF f.op = "putIfAbsent" THEN @ \cup {r} ELSE @]
           ELSE IF m2[k] # m[k] THEN NoRun ELSE run[k]]

\* ---- std::shared_mutex
CanLockShared == unique = {}
\* mutant: a unique lock is granted while shared holders remain
CanLockUnique_ignoresShared == unique = {}
CanLockUnique == unique = {} /\ shared = {}

TypeOK ==
    /\ internal_map \in [Keys -> Values \cup {Absent}]
    /\ seq \in [Keys -> Values \cup {Absent}]
    /\ shared \subseteq Threads
    /\ unique \subseteq Threads
    /\ \A t \in Threads : frame[t].op \in Ops \cup {"none"}

Init ==
    /\ internal_map \in [Keys -> Values \cup {Absent}]
    /\ seq = internal_map
    /\ shared = {}
    /\ unique = {}
    /\ frame = [t \in Threads |-> Idle]
    /\ run = [k \in Keys |-> NoRun]

\* ---- entering a method: the lock it declares is taken on its first line
NewFrame(op, k, v, o, c) ==
    [Idle EXCEPT !.pc = FirstPc(op), !.op = op, !.key = k, !.val = v, !.old = o, !.cap = c]

Call(t) ==
    /\ frame[t].pc = "idle"
    /\ \E op \in Ops :
       \E k \in (IF UsesKey(op) THEN Keys ELSE {0}),
          v \in (IF UsesVal(op) THEN Values ELSE {0}),
          o \in (IF UsesOld(op) THEN Values ELSE {0}),
          c \in (IF UsesCap(op) THEN Caps ELSE {0}) :
         LET f == NewFrame(op, k, v, o, c)
             r == BodyOf(f, seq)
         IN /\ CASE LockMode(op) = "shared" ->
                      CanLockShared /\ shared' = shared \cup {t} /\ unique' = unique
                 [] LockMode(op) = "unique" ->
                      CanLockUnique /\ unique' = unique \cup {t} /\ shared' = shared
                 [] OTHER -> UNCHANGED <<shared, unique>>
            /\ IF op \in WriteOps
               THEN /\ seq' = r.map
                    /\ frame' = [frame EXCEPT ![t] = [f EXCEPT !.exp = <<r.ret, r.out>>]]
               ELSE /\ seq' = seq
                    /\ frame' = [frame EXCEPT ![t] = f]
    /\ UNCHANGED <<internal_map, run>>

\* an exit of a method that returns before its last line
EarlyExit(f) ==
    /\ f.pc = "ret"
    /\ \/ f.op \in {"get", "getHead", "getTail", "getAndEraseHead", "eraseHead",
                    "remove", "replace", "replaceOldNew"} /\ f.ret = FALSE
       \/ f.op = "putIfAbsent" /\ f.ret # f.val
       \/ f.op \in {"insertOrReplace", "insertOrReplaceOld"} /\ f.ret = FALSE

\* mutant: the lock is released at the end of the method only, not on the
\* early returns
Unlock_keepOnEarly(t) ==
    /\ frame[t].pc = "ret"
    /\ shared' = IF EarlyExit(frame[t]) THEN shared ELSE shared \ {t}
    /\ unique' = IF EarlyExit(frame[t]) THEN unique ELSE unique \ {t}
    /\ frame' = [frame EXCEPT ![t] = Idle]
    /\ UNCHANGED <<internal_map, seq, run>>

\* ---- leaving a method: the lock object is destroyed, on every path
Unlock(t) ==
    /\ frame[t].pc = "ret"
    /\ shared' = shared \ {t}
    /\ unique' = unique \ {t}
    /\ frame' = [frame EXCEPT ![t] = Idle]
    /\ UNCHANGED <<internal_map, seq, run>>

\* ---- the methods that run their body in one step
At(t, op, pc) == frame[t].op = op /\ frame[t].pc = pc

Finish(t, r) ==
    /\ internal_map' = r.map
    /\ frame' = [frame EXCEPT ![t].pc = "ret", ![t].ret = r.ret, ![t].out = r.out]
    /\ run' = RunAfter(frame[t], r.ret, internal_map, r.map)
    /\ UNCHANGED <<shared, unique, seq>>

insert(t) ==
    At(t, "insert", "body") /\ Finish(t, insertBody(internal_map, frame[t].key, frame[t].val))

erase(t) ==
    At(t, "erase", "body") /\ Finish(t, eraseBody(internal_map, frame[t].key))

clear(t) ==
    At(t, "clear", "body") /\ Finish(t, clearBody(internal_map))

putIfAbsent(t) ==
    /\ At(t, "putIfAbsent", "body")
    /\ Finish(t, putIfAbsentBody(internal_map, frame[t].key, frame[t].val))

remove(t) ==
    At(t, "remove", "body") /\ Finish(t, removeBody(internal_map, frame[t].key, frame[t].val))

replace(t) ==
    At(t, "replace", "body") /\ Finish(t, replaceBody(internal_map, frame[t].key, frame[t].val))

insertOrReplace(t) ==
    /\ At(t, "insertOrReplace", "body")
    /\ Finish(t, insertOrReplaceBody(internal_map, frame[t].key, frame[t].val))

insertOrReplaceOld(t) ==
    /\ At(t, "insertOrReplaceOld", "body")
    /\ Finish(t, insertOrReplaceOldBody(internal_map, frame[t].key, frame[t].val))

replaceOldNew(t) ==
    /\ At(t, "replaceOldNew", "body")
    /\ Finish(t, replaceOldNewBody(internal_map, frame[t].key, frame[t].old, frame[t].val))

size(t) ==
    At(t, "size", "body") /\ Finish(t, Res(internal_map, Size(internal_map), Absent))

sizeNoThreadSafe(t) ==
    /\ At(t, "sizeNoThreadSafe", "body")
    /\ Finish(t, Res(internal_map, Size(internal_map), Absent))

empty(t) ==
    At(t, "empty", "body") /\ Finish(t, Res(internal_map, KeysOf(internal_map) = {}, Absent))

\* mutant: contains returns true when the key is present
contains_trueWhenPresent(t) ==
    /\ At(t, "contains", "body")
    /\ Finish(t, Res(internal_map, Find(internal_map, frame[t].key) # End, Absent))

contains(t) ==
    /\ At(t, "contains", "body")
    /\ Finish(t, Res(internal_map, Find(internal_map, frame[t].key) = End, Absent))

\* ---- the methods that hold the lock in shared mode and access
\* internal_map more than once: one step per access
Step(t, f) ==
    /\ frame' = [frame EXCEPT ![t] = f]
    /\ UNCHANGED <<internal_map, shared, unique, seq, run>>

Goto(f, pc) == [f EXCEPT !.pc = pc]
Return(f, r) == [f EXCEPT !.pc = "ret", !.ret = r]

\* get, line 32: auto it = internal_map.find(key)
get_find(t) ==
    /\ At(t, "get", "find")
    /\ Step(t, [Goto(frame[t], "deref") EXCEPT !.it = Find(internal_map, frame[t].key)])

\* get, lines 33-40: output = it->second unless it is end()
get_deref(t) ==
    /\ At(t, "get", "deref")
    /\ IF frame[t].it = End
       THEN Step(t, Return(frame[t], FALSE))
       ELSE \E v \in DerefValues(internal_map, frame[t].it) :
                Step(t, [Return(frame[t], TRUE) EXCEPT !.out = v])

\* getTail, line 47: if (!internal_map.empty())
getTail_empty(t) ==
    /\ At(t, "getTail", "empty")
    /\ IF KeysOf(internal_map) # {}
       THEN Step(t, Goto(frame[t], "read"))
       ELSE Step(t, Return(frame[t], FALSE))

\* getTail, lines 48-49: output = internal_map.rbegin()->second
getTail_read(t) ==
    /\ At(t, "getTail", "read")
    /\ \E v \in (IF KeysOf(internal_map) # {}
                 THEN {internal_map[MaxKeyOf(internal_map)]} ELSE Values) :
           Step(t, [Return(frame[t], TRUE) EXCEPT !.out = v])

\* getHead, line 57
getHead_empty(t) ==
    /\ At(t, "getHead", "empty")
    /\ IF KeysOf(internal_map) # {}
       THEN Step(t, Goto(frame[t], "read"))
       ELSE Step(t, Return(frame[t], FALSE))

\* getHead, lines 58-59: output = internal_map.begin()->second
getHead_read(t) ==
    /\ At(t, "getHead", "read")
    /\ \E v \in DerefValues(internal_map, Begin(internal_map)) :
           Step(t, [Return(frame[t], TRUE) EXCEPT !.out = v])

\* getAndEraseHead, line 67
getAndEraseHead_empty(t) ==
    /\ At(t, "getAndEraseHead", "empty")
    /\ IF KeysOf(internal_map) # {}
       THEN Step(t, Goto(frame[t], "begin"))
       ELSE Step(t, Return(frame[t], FALSE))

\* getAndEraseHead, line 68: auto iter = internal_map.begin()
getAndEraseHead_begin(t) ==
    /\ At(t, "getAndEraseHead", "begin")
    /\ Step(t, [Goto(frame[t], "read") EXCEPT !.it = Begin(internal_map)])

\* getAndEraseHead, line 69: output = iter->second
getAndEraseHead_read(t) ==
    /\ At(t, "getAndEraseHead", "read")
    /\ \E v \in DerefValues(internal_map, frame[t].it) :
           Step(t, [Goto(frame[t], "erase") EXCEPT !.out = v])

\* getAndEraseHead, lines 70-71: internal_map.erase(iter); return true
getAndEraseHead_erase(t) ==
    /\ At(t, "getAndEraseHead", "erase")
    /\ \/ /\ internal_map' \in EraseAt(internal_map, frame[t].it)
          /\ frame' = [frame EXCEPT ![t] = Return(frame[t], TRUE)]
          /\ run' = RunAfter(frame[t], TRUE, internal_map, internal_map')
       \/ /\ EraseFaults(internal_map, frame[t].it)
          /\ frame' = [frame EXCEPT ![t] = Goto(frame[t], "fault")]
          /\ UNCHANGED <<internal_map, run>>
    /\ UNCHANGED <<shared, unique, seq>>

\* eraseHead, line 79
eraseHead_empty(t) ==
    /\ At(t, "eraseHead", "empty")
    /\ IF KeysOf(internal_map) # {}
       THEN Step(t, Goto(frame[t], "begin"))
       ELSE Step(t, Return(frame[t], FALSE))

\* eraseHead, line 80: auto iter = internal_map.begin()
eraseHead_begin(t) ==
    /\ At(t, "eraseHead", "begin")
    /\ Step(t, [Goto(frame[t], "erase") EXCEPT !.it = Begin(internal_map)])

\* eraseHead, lines 81-82: internal_map.erase(iter); return true
eraseHead_erase(t) ==
    /\ At(t, "eraseHead", "erase")
    /\ \/ /\ internal_map' \in EraseAt(internal_map, frame[t].it)
          /\ frame' = [frame EXCEPT ![t] = Return(frame[t], TRUE)]
          /\ run' = RunAfter(frame[t], TRUE, internal_map, internal_map')
       \/ /\ EraseFaults(internal_map, frame[t].it)
          /\ frame' = [frame EXCEPT ![t] = Goto(frame[t], "fault")]
          /\ UNCHANGED <<internal_map, run>>
    /\ UNCHANGED <<shared, unique, seq>>

\* getValues, line 136: auto it = internal_map.begin().  The destination
\* [begin, end) has frame.cap places; frame.dest is what was written to it
getValues_begin(t) ==
    /\ At(t, "getValues", "begin")
    /\ Step(t, [Goto(frame[t], "copy") EXCEPT !.it = Begin(internal_map)])

\* getValues, lines 137-138 and 143: the loop test, then *begin = *it
getValues_copy(t) ==
    /\ At(t, "getValues", "copy")
    /\ IF Len(frame[t].dest) # frame[t].cap /\ frame[t].it # End
       THEN \E v \in DerefValues(internal_map, frame[t].it) :
                Step(t, [Goto(frame[t], "next") EXCEPT
                            !.dest = Append(frame[t].dest, <<frame[t].it, v>>)])
       ELSE Step(t, Return(frame[t], Len(frame[t].dest)))

\* getValues, lines 139-140: it++; begin++
getValues_next(t) ==
    /\ At(t, "getValues", "next")
    /\ \E n \in Advance(internal_map, frame[t].it) :
           Step(t, [Goto(frame[t], "copy") EXCEPT !.it = n])

\* a step of thread t inside a method
InMethod(t) ==
    \/ Unlock(t)
    \/ insert(t)
    \/ erase(t)
    \/ clear(t)
    \/ putIfAbsent(t)
    \/ remove(t)
    \/ replace(t)
    \/ insertOrReplace(t)
    \/ insertOrReplaceOld(t)
    \/ replaceOldNew(t)
    \/ size(t)
    \/ sizeNoThreadSafe(t)
    \/ empty(t)
    \/ contains(t)
    \/ get_find(t)
    \/ get_deref(t)
    \/ getTail_empty(t)
    \/ getTail_read(t)
    \/ getHead_empty(t)
    \/ getHead_read(t)
    \/ getAndEraseHead_empty(t)
    \/ getAndEraseHead_begin(t)
    \/ getAndEraseHead_read(t)
    \/ getAndEraseHead_erase(t)
    \/ eraseHead_empty(t)
    \/ eraseHead_begin(t)
    \/ eraseHead_erase(t)
    \/ getValues_begin(t)
    \/ getValues_copy(t)
    \/ getValues_next(t)

Next == \E t \in Threads : Call(t) \/ InMethod(t)

Spec == Init /\ [][Next]_vars

\* ======================================================================
\* Properties
\* ======================================================================

\* a step of thread t that reads or writes internal_map
AccessStep(t) == frame[t].pc \notin {"idle", "ret"} /\ frame'[t] # frame[t]

\* C1: every step that changes internal_map is taken by a thread that holds
\* the lock in unique mode at that step.
C1_WritesHoldUnique ==
    [][internal_map' # internal_map =>
          \E t \in unique : frame'[t] # frame[t]]_vars

\* C2: a getAndEraseHead call that returns true outputs the value of the
\* entry that has the least key at the moment it is removed and removes
\* exactly that entry; a call on an empty map returns false and leaves the
\* map empty.
C2_GetAndEraseHeadAtomic ==
    [][\A t \in Threads :
          /\ (At(t, "getAndEraseHead", "erase") /\ frame'[t].pc = "ret") =>
                /\ KeysOf(internal_map) # {}
                /\ internal_map' = Del(internal_map, MinKey(internal_map))
                /\ frame'[t].out = internal_map[MinKey(internal_map)]
          /\ (At(t, "getAndEraseHead", "empty") /\ frame'[t].pc = "ret") =>
                /\ frame'[t].ret = FALSE
                /\ KeysOf(internal_map') = {}]_vars

\* C3: while no method but eraseHead is running, an eraseHead call returns
\* true iff it removes an entry, the entry it removes is the one with the
\* least key, and a call that returns false leaves the map as it is (so the
\* size drops by the number of true returns).
C3_EraseHeadCounts ==
    [][(\A u \in Threads : frame[u].op \in {"none", "eraseHead"}) =>
          \A t \in Threads :
              (frame[t].op = "eraseHead" /\ frame[t].pc # "ret" /\ frame'[t].pc = "ret") =>
                  IF frame'[t].ret
                  THEN /\ KeysOf(internal_map) # {}
                       /\ internal_map' = Del(internal_map, MinKey(internal_map))
                  ELSE internal_map' = internal_map]_vars

\* C4: each write call returns what it returns when the write calls are run
\* one at a time in the order in which they took the lock, and when no call
\* is in progress the map is the map that sequential run leaves.
C4_Linearizable ==
    /\ \A t \in Threads :
           (frame[t].pc = "ret" /\ frame[t].op \in WriteOps) =>
               <<frame[t].ret, frame[t].out>> = frame[t].exp
    /\ (\A t \in Threads : frame[t].pc = "idle") => internal_map = seq

\* C5: while a thread is inside a read method the map does not change, and
\* what getValues has written when it returns is a prefix, in ascending key
\* order, of the map's entries.
C5_ReadersSeeNoWrite ==
    [][/\ (\E t \in Threads : frame[t].op \in ReadOps) => internal_map' = internal_map
       /\ \A t \in Threads :
              (At(t, "getValues", "copy") /\ frame'[t].pc = "ret") =>
                  frame'[t].dest = Prefix(Entries(internal_map, 1), frame[t].cap)]_vars

\* C6: the lock is free, or held in unique mode by exactly one thread and by
\* none in shared mode, or held in shared mode only.
C6_LockInv ==
    /\ Cardinality(unique) <= 1
    /\ unique # {} => shared = {}
    /\ \A t \in Threads :
           /\ t \in unique <=> (frame[t].pc # "idle" /\ LockMode(frame[t].op) = "unique")
           /\ t \in shared <=> (frame[t].pc # "idle" /\ LockMode(frame[t].op) = "shared")

\* C6 witness: two threads hold the lock in shared mode at once.
C6_TwoSharedHolders == Cardinality(shared) >= 2

\* C7 as stated: every access to internal_map by any method, sizeNoThreadSafe
\* included, is made by a thread that holds the lock.
C7_AllAccessLocked ==
    [][\A t \in Threads : AccessStep(t) => Holds(t)]_vars

\* C7 amended: every access to internal_map by a method other than
\* sizeNoThreadSafe is made by a thread that holds the lock;
\* sizeNoThreadSafe reads the size holding no lock.
C7_AccessLockedButNoThreadSafe ==
    [][\A t \in Threads :
          AccessStep(t) => (Holds(t) <=> frame[t].op # "sizeNoThreadSafe")]_vars

\* C7 witness: a locked method has made its accesses and still holds the
\* lock, while another thread has read the size through sizeNoThreadSafe.
C7_LockedAccessDone ==
    \E t, u \in Threads :
        /\ frame[t].pc = "ret" /\ frame[t].op \in UniqueOps /\ Holds(t)
        /\ frame[u].pc = "ret" /\ frame[u].op = "sizeNoThreadSafe" /\ ~Holds(u)

\* C8: a thread that is not inside a method holds the lock in no mode, on
\* every exit path: the step that leaves a method releases the lock, so
\* when no method is in progress the lock is free.
C8_LockReleasedOnExit ==
    /\ [](\A t \in Threads : frame[t].pc = "idle" => ~Holds(t))
    /\ []((\A t \in Threads : frame[t].pc = "idle") => (shared = {} /\ unique = {}))
    /\ [][\A t \in Threads :
             (frame[t].pc = "ret" /\ frame'[t].pc = "idle") =>
                 (t \notin shared' /\ t \notin unique')]_vars

\* C8 witness: a method is about to leave through an early return, holding
\* the lock, while the other threads are outside every method.
C8_EarlyExitHoldingLock ==
    \E t \in Threads :
        /\ EarlyExit(frame[t]) /\ Holds(t)
        /\ \A u \in Threads \ {t} : frame[u].pc = "idle" /\ ~Holds(u)

\* C9: putIfAbsent(key, value) inserts and returns value when key is absent,
\* and otherwise changes nothing and returns the value key has; so in a run
\* of putIfAbsent calls on a key that was absent, with no other change to
\* the key, exactly one call inserts, every call returns the value that call
\* inserted, and the key has that value.
C9_PutIfAbsent ==
    /\ [][\A t \in Threads :
             (At(t, "putIfAbsent", "body") /\ frame'[t].pc = "ret") =>
                 IF ~Has(internal_map, frame[t].key)
                 THEN /\ internal_map' = Put(internal_map, frame[t].key, frame[t].val)
                      /\ frame'[t].ret = frame[t].val
                 ELSE /\ internal_map' = internal_map
                      /\ frame'[t].ret = internal_map[frame[t].key]]_vars
    /\ [](\A k \in Keys :
             run[k].op = "putIfAbsent" =>
                 /\ run[k].n = 1
                 /\ run[k].rets = {run[k].win}
                 /\ internal_map[k] = run[k].win)

\* C9 witness: in a run of putIfAbsent calls on a key, a call with another
\* value than the one inserted has returned the inserted value.
C9_SecondCallReturnsFirst ==
    \E t \in Threads :
        /\ At(t, "putIfAbsent", "ret")
        /\ run[frame[t].key].op = "putIfAbsent"
        /\ frame[t].val # frame[t].ret
        /\ frame[t].ret = run[frame[t].key].win

\* C10: replace(key, oldValue, newValue) stores newValue and returns true iff
\* key is present with value oldValue, and otherwise changes nothing and
\* returns false; so in a run of calls replace(k, v1, x) with x # v1 on a
\* key that maps to v1, with no other change to the key, exactly one call
\* returns true and the key has the value that call passed.
C10_ReplaceOldNew ==
    /\ [][\A t \in Threads :
             (At(t, "replaceOldNew", "body") /\ frame'[t].pc = "ret") =>
                 IF Has(internal_map, frame[t].key)
                    /\ internal_map[frame[t].key] = frame[t].old
                 THEN /\ internal_map' = Put(internal_map, frame[t].key, frame[t].val)
                      /\ frame'[t].ret = TRUE
                 ELSE /\ internal_map' = internal_map
                      /\ frame'[t].ret = FALSE]_vars
    /\ [](\A k \in Keys :
             run[k].op = "replaceOldNew" =>
                 /\ run[k].n = 1
                 /\ internal_map[k] = run[k].win)

\* C10 witness: in a run of replace(k, v1, .) calls, a call that passed
\* another new value than the winner has returned false.
C10_SecondSwapFails ==
    \E t \in Threads :
        /\ At(t, "replaceOldNew", "ret")
        /\ run[frame[t].key].op = "replaceOldNew"
        /\ frame[t].old = run[frame[t].key].base
        /\ frame[t].val \notin {frame[t].old, run[frame[t].key].win}
        /\ frame[t].ret = FALSE

\* C11: remove(key, value) removes the entry and returns true iff key is
\* present with that value, and otherwise changes nothing and returns
\* false; after a true return the key stays absent until an inserting call
\* on it (insert, putIfAbsent, insertOrReplace) takes effect, and every get
\* of it made meanwhile finds end() and returns false.
C11_Remove ==
    /\ [][\A t \in Threads :
             (At(t, "remove", "body") /\ frame'[t].pc = "ret") =>
                 IF Has(internal_map, frame[t].key)
                    /\ internal_map[frame[t].key] = frame[t].val
                 THEN /\ internal_map' = Del(internal_map, frame[t].key)
                      /\ frame'[t].ret = TRUE
                 ELSE /\ internal_map' = internal_map
                      /\ frame'[t].ret = FALSE]_vars
    /\ [][\A k \in Keys :
             (~Has(internal_map, k) /\ Has(internal_map', k)) =>
                 \E t \in Threads :
                     /\ frame[t].key = k /\ frame'[t] # frame[t]
                     /\ frame[t].op \in {"insert", "putIfAbsent",
                                         "insertOrReplace", "insertOrReplaceOld"}]_vars
    /\ [](\A k \in Keys :
             run[k].op = "remove" =>
                 /\ run[k].n = 1
                 /\ ~Has(internal_map, k)
                 /\ \A t \in Threads :
                        (frame[t].op = "get" /\ frame[t].key = k) =>
                            /\ frame[t].pc = "deref" => frame[t].it = End
                            /\ frame[t].pc = "ret" => frame[t].ret = FALSE)

\* C11 witness: after remove returned true for a key, a get of that key
\* has returned false.
C11_GetAfterRemove ==
    \E t \in Threads :
        /\ At(t, "get", "ret")
        /\ run[frame[t].key].op = "remove"
        /\ frame[t].ret = FALSE

\* C12: insert(key, value) returns true iff key is absent, and then key maps
\* to value; when key is present it returns false and changes nothing.  So
\* in a run of insert calls on a key that was absent, with no other change
\* to the key, exactly one call returns true, the key has the value that
\* call passed, and a get of the key returns true with that value.
C12_Insert ==
    /\ [][\A t \in Threads :
             (At(t, "insert", "body") /\ frame'[t].pc = "ret") =>
                 IF ~Has(internal_map, frame[t].key)
                 THEN /\ internal_map' = Put(internal_map, frame[t].key, frame[t].val)
                      /\ frame'[t].ret = TRUE
                 ELSE /\ internal_map' = internal_map
                      /\ frame'[t].ret = FALSE]_vars
    /\ [](\A k \in Keys :
             run[k].op = "insert" =>
                 /\ run[k].n = 1
                 /\ internal_map[k] = run[k].win
                 /\ \A t \in Threads :
                        (At(t, "get", "ret") /\ frame[t].key = k) =>
                            (frame[t].ret = TRUE /\ frame[t].out = run[k].win))

\* C12 witness: in a run of insert calls on a key, a call with another value
\* than the one inserted has returned false.
C12_SecondInsertFails ==
    \E t \in Threads :
        /\ At(t, "insert", "ret")
        /\ run[frame[t].key].op = "insert"
        /\ frame[t].val # run[frame[t].key].win
        /\ frame[t].ret = FALSE

\* C12 second witness state: a get that follows the insert returns its value.
C12_GetAfterInsert ==
    \E t \in Threads :
        /\ At(t, "get", "ret")
        /\ run[frame[t].key].op = "insert"
        /\ frame[t].out = run[frame[t].key].win

\* C13: insertOrReplace(key, newValue) always leaves key mapped to newValue
\* and changes no other key's entry, and returns true iff key was absent;
\* the variant with oldValue also writes to oldValue the value key had,
\* exactly when key was present.
C13_InsertOrReplace ==
    [][\A t \in Threads :
          (frame[t].op \in {"insertOrReplace", "insertOrReplaceOld"}
             /\ frame[t].pc = "body" /\ frame'[t].pc = "ret") =>
              /\ internal_map' = Put(internal_map, frame[t].key, frame[t].val)
              /\ frame'[t].ret = ~Has(internal_map, frame[t].key)
              /\ frame'[t].out = IF frame[t].op = "insertOrReplaceOld"
                                 THEN internal_map[frame[t].key] ELSE Absent]_vars

\* C13 witness: the variant with oldValue has overwritten a value and
\* returned false with the previous value in oldValue.
C13_OverwriteReportsOld ==
    \E t \in Threads :
        /\ At(t, "insertOrReplaceOld", "ret")
        /\ frame[t].ret = FALSE
        /\ frame[t].out \notin {Absent, frame[t].val}
        /\ internal_map[frame[t].key] = frame[t].val

\* C14: replace(key, newValue) never changes the set of keys; it returns
\* true and stores newValue iff key is present, and returns false and
\* changes nothing when key is absent.
C14_ReplaceUpdateOnly ==
    [][\A t \in Threads :
          (At(t, "replace", "body") /\ frame'[t].pc = "ret") =>
              /\ KeysOf(internal_map') = KeysOf(internal_map)
              /\ IF Has(internal_map, frame[t].key)
                 THEN /\ internal_map' = Put(internal_map, frame[t].key, frame[t].val)
                      /\ frame'[t].ret = TRUE
                 ELSE /\ internal_map' = internal_map
                      /\ frame'[t].ret = FALSE]_vars

\* C14 witness: replace on an absent key has returned false and the key is
\* still absent.
C14_ReplaceAbsent ==
    \E t \in Threads :
        /\ At(t, "replace", "ret")
        /\ frame[t].ret = FALSE
        /\ ~Has(internal_map, frame[t].key)

\* C15: contains(key) returns true exactly when key is absent (find gives
\* end()) and false exactly when it is present, and changes nothing.
C15_ContainsInverted ==
    [][\A t \in Threads :
          (At(t, "contains", "body") /\ frame'[t].pc = "ret") =>
              /\ frame'[t].ret = ~Has(internal_map, frame[t].key)
              /\ internal_map' = internal_map]_vars

\* C15 witness: contains has returned false for a key that is present.
C15_FalseForPresentKey ==
    \E t \in Threads :
        /\ At(t, "contains", "ret")
        /\ Has(internal_map, frame[t].key)
        /\ frame[t].ret = FALSE

\* C16: getHead that finds the map non-empty outputs the value of the
\* minimum key, getTail the value of the maximum key, and both return true;
\* they return false only on an empty map; no step of either changes the
\* map.  The read step must therefore find the map still non-empty.
C16_HeadTail ==
    [][\A t \in Threads :
          /\ (frame[t].op \in {"getHead", "getTail"} /\ AccessStep(t)) =>
                 internal_map' = internal_map
          /\ (frame[t].op \in {"getHead", "getTail"} /\ frame[t].pc = "empty"
                /\ frame'[t].pc = "ret") =>
                 frame'[t].ret = FALSE /\ KeysOf(internal_map) = {}
          /\ (At(t, "getHead", "read") /\ frame'[t].pc = "ret") =>
                 /\ KeysOf(internal_map) # {}
                 /\ frame'[t].ret = TRUE
                 /\ frame'[t].out = internal_map[MinKey(internal_map)]
          /\ (At(t, "getTail", "read") /\ frame'[t].pc = "ret") =>
                 /\ KeysOf(internal_map) # {}
                 /\ frame'[t].ret = TRUE
                 /\ frame'[t].out = internal_map[MaxKeyOf(internal_map)]]_vars

\* the smaller of two numbers
Min2(a, b) == IF a < b THEN a ELSE b

\* C17: getValues walks the map from its smallest key upwards: each pair it
\* writes is the entry its iterator stands on, the iterator then moves to the
\* next larger key, it stops after min(C, E) pairs, returns that position,
\* writes nothing more and changes nothing in the map.
C17_GetValues ==
    [][\A t \in Threads :
          (frame[t].op = "getValues" /\ AccessStep(t)) =>
              /\ internal_map' = internal_map
              /\ frame[t].pc = "begin" =>
                     frame'[t].it = Begin(internal_map) /\ frame'[t].dest = << >>
              /\ (frame[t].pc = "copy" /\ frame'[t].pc = "next") =>
                     /\ Valid(internal_map, frame[t].it)
                     /\ Len(frame[t].dest) < frame[t].cap
                     /\ frame'[t].dest =
                            Append(frame[t].dest,
                                   <<frame[t].it, internal_map[frame[t].it]>>)
              /\ frame[t].pc = "next" =>
                     /\ Valid(internal_map, frame[t].it)
                     /\ frame'[t].it = Succ(internal_map, frame[t].it)
                     /\ frame'[t].dest = frame[t].dest
              /\ (frame[t].pc = "copy" /\ frame'[t].pc = "ret") =>
                     /\ frame'[t].dest = frame[t].dest
                     /\ frame'[t].ret = Len(frame[t].dest)
                     /\ frame'[t].ret = Min2(frame[t].cap, Size(internal_map))
                     /\ \A i, j \in 1..Len(frame[t].dest) :
                            i < j => frame[t].dest[i][1] < frame[t].dest[j][1]]_vars

\* C18: every value a reader reports for a key is the value the map holds
\* for that key at the moment the reader reads it, so the key is present at
\* that moment: get reports for its own key, getHead and getTail for a key
\* of the map, getValues for the key it writes beside the value.
C18_ReadersReportStored ==
    [][\A t \in Threads :
          /\ (At(t, "get", "deref") /\ frame'[t].pc = "ret" /\ frame'[t].ret = TRUE) =>
                 /\ Has(internal_map, frame[t].key)
                 /\ frame'[t].out = internal_map[frame[t].key]
          /\ (frame[t].op \in {"getHead", "getTail"} /\ frame[t].pc = "read"
                /\ frame'[t].pc = "ret") =>
                 \E k \in KeysOf(internal_map) : frame'[t].out = internal_map[k]
          /\ (At(t, "getValues", "copy") /\ frame'[t].pc = "next") =>
                 LET p == frame'[t].dest[Len(frame'[t].dest)]
                 IN  Has(internal_map, p[1]) /\ p[2] = internal_map[p[1]]]_vars

\* C19: a thread that holds the lock can always take its next step, so no
\* call stays inside a method for ever and no caller waits for a lock whose
\* holder cannot make progress.
C19_HolderCanStep == \A t \in Threads : Holds(t) => ENABLED InMethod(t)

\* the methods that write under one key
KeyedWrites == {"insert", "erase", "putIfAbsent", "remove", "replace",
                "insertOrReplace", "insertOrReplaceOld", "replaceOldNew"}

\* C20: a step of a keyed write leaves every key other than its own as it
\* was, and a step of getAndEraseHead or eraseHead leaves every entry other
\* than the head entry it took from begin() as it was.
C20_OnlyOwnKey ==
    [][\A t \in Threads :
          /\ (frame[t].op \in KeyedWrites /\ AccessStep(t)) =>
                 \A k \in Keys \ {frame[t].key} : internal_map'[k] = internal_map[k]
          /\ (frame[t].op \in {"getAndEraseHead", "eraseHead"} /\ AccessStep(t)) =>
                 IF frame[t].pc = "erase"
                 THEN \A k \in Keys \ {frame[t].it} : internal_map'[k] = internal_map[k]
                 ELSE internal_map' = internal_map]_vars

====
